---- MODULE Spec2Model ----
(***************************************************************************)
(* rmesg: the command-line program (src/main.rs) and the benchmark drivers *)
(* (benches/benchmark.rs) running on top of the rmesg library.  The        *)
(* library (Backend selection, the KLogCtl and DevKMsg backends, the       *)
(* follow iterators/streams and the entry codec) is modelled from its      *)
(* design document; the two programs are modelled from their code.         *)
(***************************************************************************)
EXTENDS Integers, Sequences, FiniteSets, TLC

\* ------------------------------------------------------------------ bounds

\* Most records the kernel logs while main or a one-shot driver runs.  (A
\* follow driver is given the BenchLimit + 1 records its loop needs to reach
\* its break, and MaxPending more.)
MaxRecords == 4

\* The first MaxVaried records logged are of any kind; later ones are plain.
MaxVaried == 2

\* Most records logged but not yet read by the running program.
MaxPending == 2

\* Longest command line enumerated by SpecParse.
MaxArgs == 3

\* benchmark.rs: `if count > 25 { break; }`
BenchLimit == 25

\* ------------------------------------------------------------ command line

Tokens == {"-f", "-c", "-r", "-b", "klogctl", "devkmsg", "invalid"}

RECURSIVE SeqsUpTo(_, _)
SeqsUpTo(S, n) ==
    IF n = 0 THEN {<<>>}
    ELSE LET shorter == SeqsUpTo(S, n - 1)
         IN  shorter \cup {Append(s, t) : s \in shorter, t \in S}

NoMatches == [follow |-> FALSE, clear |-> FALSE, raw |-> FALSE,
              backend |-> "none", error |-> FALSE]

UsageError == [NoMatches EXCEPT !.error = TRUE]

\* The clap Command of parse_args: three SetTrue flags -f -c -r that take no
\* value and may be given once, and -b taking one value out of
\* {klogctl, devkmsg}.  Anything else is a usage error.
RECURSIVE ClapMatches(_, _)
ClapMatches(toks, m) ==
    IF toks = <<>> THEN m
    ELSE LET t == Head(toks) IN
         CASE t = "-f" -> IF m.follow THEN UsageError
                          ELSE ClapMatches(Tail(toks), [m EXCEPT !.follow = TRUE])
           [] t = "-c" -> IF m.clear THEN UsageError
                          ELSE ClapMatches(Tail(toks), [m EXCEPT !.clear = TRUE])
           [] t = "-r" -> IF m.raw THEN UsageError
                          ELSE ClapMatches(Tail(toks), [m EXCEPT !.raw = TRUE])
           [] t = "-b" -> IF m.backend # "none" \/ Len(toks) < 2 THEN UsageError
                          ELSE IF toks[2] \notin {"klogctl", "devkmsg"} THEN UsageError
                          ELSE ClapMatches(Tail(Tail(toks)),
                                           [m EXCEPT !.backend = toks[2]])
           [] OTHER -> UsageError

\* Faulty variant: the two backend names swapped.
BackendOfBuggy(v) ==
    CASE v = "none"    -> "Default"
      [] v = "klogctl" -> "DevKMsg"
      [] v = "devkmsg" -> "KLogCtl"
      [] OTHER         -> "panic"

\* Faulty variant: an absent -b taken for devkmsg.
BackendOfNoDefault(v) ==
    CASE v = "none"    -> "DevKMsg"
      [] v = "klogctl" -> "KLogCtl"
      [] v = "devkmsg" -> "DevKMsg"
      [] OTHER         -> "panic"

\* `match matches.get_one::<String>("backend").map(|s| s.as_str())`
BackendOf(v) ==
    CASE v = "none"    -> "Default"
      [] v = "klogctl" -> "KLogCtl"
      [] v = "devkmsg" -> "DevKMsg"
      [] OTHER         -> "panic"

NoOptions ==
    [rejected |-> TRUE, follow |-> FALSE, clear |-> FALSE, raw |-> FALSE,
     backend |-> "none"]

\* parse_args: get_matches() ends the process on a usage error, otherwise
\* the Options struct is built from the matches.
parse_args(argv) ==
    LET m == ClapMatches(argv, NoMatches) IN
    IF m.error THEN NoOptions
    ELSE [rejected |-> FALSE,
          follow   |-> m.follow,
          clear    |-> m.clear,
          raw      |-> m.raw,
          backend  |-> BackendOf(m.backend)]

\* ------------------------------------------------------------------- state

VARIABLES
    prog,       \* the program that runs: "main" or one benchmark driver
    args,       \* main's command line (without argv[0])
    opts,       \* main's `opts` once parse_args has run
    pc,         \* "start", "following", "done", "usage", "panicked"
    kmsgAvail,  \* the structured special file: "ok", "missing", "denied"
    klogPerm,   \* whether the caller may use the ring-buffer control calls
    ioFault,    \* whether reading the special file fails at transport level
    log,        \* every record the kernel has logged, oldest first
    ringStart,  \* records before this index were cleared from the ring buffer
    sess,       \* the follow object and its backend session
    items,      \* the items the library has handed to the program so far
    callErr,    \* the error the retrieval or the construction returned
    count,      \* the benchmark driver's `count`
    stdout,     \* what main printed to standard output
    stderr,     \* what main printed to standard error
    ksys,       \* the backend actions performed, in order
    result      \* how the program ended: "none", "Ok", "usage", "panic"

vars == <<prog, args, opts, pc, kmsgAvail, klogPerm, ioFault, log, ringStart, sess,
          items, callErr, count, stdout, stderr, ksys, result>>

\* ------------------------------------------------------------- entry codec

Absent == 0 - 1

\* What a raw record can look like apart from its sequence number: a packed
\* priority (6 = kern.info, 192 = facility 24, out of range) and whether the
\* ';' separator is there.
PlainKind == [prio |-> 6, sep |-> TRUE]

RecordKinds == {PlainKind,
                [prio |-> 192, sep |-> TRUE],
                [prio |-> 6,   sep |-> FALSE]}

Entry(fac, lvl, sq, msg) ==
    [kind |-> "Entry", facility |-> fac, level |-> lvl, seq |-> sq,
     message |-> msg, err |-> "none"]

RawLine(r) ==
    [kind |-> "Raw", facility |-> Absent, level |-> Absent, seq |-> Absent,
     message |-> r.seq, err |-> "none"]

ErrItem(e) ==
    [kind |-> "Err", facility |-> Absent, level |-> Absent, seq |-> Absent,
     message |-> Absent, err |-> e]

\* priority,sequence,timestamp,flag;message.  facility = priority >> 3,
\* level = priority & 7; no ';' or a facility above 23 is a malformed record.
parse_kmsg(r) ==
    IF ~r.sep THEN ErrItem("MalformedRecord")
    ELSE IF r.prio \div 8 > 23 THEN ErrItem("MalformedRecord")
    ELSE Entry(r.prio \div 8, r.prio % 8, r.seq, r.seq)

\* <priority>[timestamp] message, best effort: decoration that does not
\* decode leaves the optional fields absent; the line never fails.  The
\* dialect carries no sequence number.
parse_klog(r) ==
    IF r.prio \div 8 > 23 THEN Entry(Absent, Absent, Absent, r.seq)
    ELSE Entry(r.prio \div 8, r.prio % 8, Absent, r.seq)

IsOk(item) == item.kind # "Err"

RECURSIVE FirstError(_)
FirstError(s) ==
    IF s = <<>> THEN "none"
    ELSE IF ~IsOk(Head(s)) THEN Head(s).err
    ELSE FirstError(Tail(s))

KeepOk(s) == SelectSeq(s, IsOk)

Repeat(x, n) == [i \in 1..n |-> x]

\* ------------------------------------------------------- backend selector

\* Explicit choices stand; the automatic choice is the structured file when
\* it can be opened at construction time, the ring buffer otherwise.
SelectBackend(backend) ==
    IF backend = "Default"
    THEN IF kmsgAvail = "ok" THEN "DevKMsg" ELSE "KLogCtl"
    ELSE backend

\* Opening the special file.
KmsgOpenError ==
    CASE kmsgAvail = "missing" -> "BackendUnavailable"
      [] kmsgAvail = "denied"  -> "OperationNotPermitted"
      [] OTHER                 -> "none"

\* The open attempts construction makes on the special file.
OpenAttempts(backend) ==
    IF backend \in {"Default", "DevKMsg"} THEN <<"kmsg_open">> ELSE <<>>

Failed(e, sys, rs) ==
    [ok |-> FALSE, err |-> e, out |-> <<>>, sys |-> sys, ringStart |-> rs]

Succeeded(out, sys, rs) ==
    [ok |-> TRUE, err |-> "none", out |-> out, sys |-> sys, ringStart |-> rs]

\* ------------------------------------------------------ one-shot retrieval

\* KLogCtl: read-all once; clear right after it when asked and it worked.
klog(clear, raw) ==
    IF ~klogPerm
    THEN Failed("OperationNotPermitted", <<"klog_read_all">>, ringStart)
    ELSE LET blob == SubSeq(log, ringStart + 1, Len(log))
             out  == [i \in DOMAIN blob |->
                         IF raw THEN RawLine(blob[i]) ELSE parse_klog(blob[i])]
         IN  IF clear
             THEN Succeeded(out, <<"klog_read_all", "klog_clear">>, Len(log))
             ELSE Succeeded(out, <<"klog_read_all">>, ringStart)

\* DevKMsg: open, read every record available until the read would block,
\* close.  `strict` is whether a malformed record fails the retrieval or
\* only itself.
kmsg(raw, strict) ==
    IF KmsgOpenError # "none"
    THEN Failed(KmsgOpenError, <<"kmsg_open">>, ringStart)
    ELSE IF ioFault
    THEN Failed("IOFailure", <<"kmsg_open", "kmsg_read">>, ringStart)
    ELSE LET reads  == <<"kmsg_open">> \o Repeat("kmsg_read", Len(log))
             parsed == [i \in DOMAIN log |->
                         IF raw THEN RawLine(log[i]) ELSE parse_kmsg(log[i])]
         IN  IF strict /\ FirstError(parsed) # "none"
             THEN Failed(FirstError(parsed), reads, ringStart)
             ELSE Succeeded(KeepOk(parsed), reads, ringStart)

\* log_entries (raw = FALSE) and logs_raw (raw = TRUE).
OneShot(backend, clear, raw, strict) ==
    IF SelectBackend(backend) = "DevKMsg"
    THEN kmsg(raw, strict)
    ELSE LET r == klog(clear, raw)
         IN  [r EXCEPT !.sys = OpenAttempts(backend) \o @]

\* ---------------------------------------------------------- follow objects

NoSession ==
    [open |-> FALSE, backend |-> "none", style |-> "none", raw |-> FALSE,
     start |-> 0, cursor |-> 0, buf |-> <<>>, parked |-> FALSE]

\* Constructing a follow object: the backend is selected once and its session
\* opened.  The structured file is opened here, and with `skip` the cursor is
\* placed at the end of the stream; the ring buffer has nothing to open.
OpenFollow(backend, raw, style, skip) ==
    LET b == SelectBackend(backend) IN
    IF b = "DevKMsg" /\ KmsgOpenError # "none"
    THEN [ok |-> FALSE, err |-> KmsgOpenError, sess |-> NoSession,
          sys |-> OpenAttempts(backend)]
    ELSE LET at == IF b = "DevKMsg" /\ skip THEN Len(log) ELSE 0
         IN  [ok |-> TRUE, err |-> "none",
              sess |-> [open |-> TRUE, backend |-> b, style |-> style,
                        raw |-> raw, start |-> at, cursor |-> at,
                        buf |-> <<>>, parked |-> FALSE],
              sys |-> OpenAttempts(backend)]

\* Whether a read of the backend returns something (a record or a failure)
\* rather than "would block" / "no data".
Ready(s) ==
    IF s.backend = "DevKMsg"
    THEN ioFault \/ s.cursor < Len(log)
    ELSE s.buf # <<>> \/ ~klogPerm \/ s.cursor < Len(log)

Yield(item, s, sys) == [yield |-> TRUE, item |-> item, sess |-> s, sys |-> sys]

NoYield(s) ==
    [yield |-> FALSE, item |-> ErrItem("none"), sess |-> s, sys |-> <<>>]

Min(a, b) == IF a < b THEN a ELSE b

\* Faulty variant: the cursor steps back after the newest record was read.
ReadKmsgRewind(s) ==
    IF ioFault
    THEN Yield(ErrItem("IOFailure"), [s EXCEPT !.open = FALSE], <<"kmsg_read">>)
    ELSE IF s.cursor < Len(log)
    THEN LET r == log[s.cursor + 1]
         IN  Yield(IF s.raw THEN RawLine(r) ELSE parse_kmsg(r),
                   [s EXCEPT !.cursor = IF @ + 1 = Len(log) /\ @ > s.start
                                        THEN @ - 1 ELSE @ + 1],
                   <<"kmsg_read">>)
    ELSE NoYield([s EXCEPT !.parked = TRUE])

\* DevKMsg: one read of the descriptor returns exactly one record, which is
\* parsed (or passed on raw) and yielded; a transport failure is yielded and
\* ends the session; without data the object waits for readiness.
ReadKmsg(s) ==
    IF ioFault
    THEN Yield(ErrItem("IOFailure"), [s EXCEPT !.open = FALSE], <<"kmsg_read">>)
    ELSE IF s.cursor < Len(log)
    THEN LET r == log[s.cursor + 1]
         IN  Yield(IF s.raw THEN RawLine(r) ELSE parse_kmsg(r),
                   [s EXCEPT !.cursor = @ + 1], <<"kmsg_read">>)
    ELSE NoYield([s EXCEPT !.parked = TRUE])

KlogItem(s, r) == IF s.raw THEN RawLine(r) ELSE parse_klog(r)

\* KLogCtl: lines of the last chunk are yielded first; then one read action
\* consumes the next chunk (n records of it at most), a permission failure
\* is yielded and ends the session, and an empty read makes the object sleep
\* for its interval.
ReadKlog(s, n) ==
    IF s.buf # <<>>
    THEN Yield(KlogItem(s, Head(s.buf)), [s EXCEPT !.buf = Tail(@)], <<>>)
    ELSE IF ~klogPerm
    THEN Yield(ErrItem("OperationNotPermitted"), [s EXCEPT !.open = FALSE],
               <<"klog_read">>)
    ELSE IF s.cursor < Len(log)
    THEN LET k     == Min(n, Len(log) - s.cursor)
             chunk == SubSeq(log, s.cursor + 1, s.cursor + k)
         IN  Yield(KlogItem(s, Head(chunk)),
                   [s EXCEPT !.cursor = @ + k, !.buf = Tail(chunk)],
                   <<"klog_read">>)
    ELSE NoYield([s EXCEPT !.parked = TRUE])

\* The shared "read the next record, else wait" primitive.
ReadNext(s, n) ==
    IF s.backend = "DevKMsg" THEN ReadKmsg(s) ELSE ReadKlog(s, n)

\* Faulty variant: waking up swallows the record that caused it.
WakeLosing(s) == [s EXCEPT !.parked = FALSE, !.cursor = IF s.parked THEN @ + 1 ELSE @]

\* Readiness (or the elapsed interval) lets a waiting follow object read again.
Wake(s) == [s EXCEPT !.parked = FALSE]

\* Dropping a follow object releases its session.
Dropped(s) == [s EXCEPT !.open = FALSE, !.parked = FALSE]

\* The records a session has handed out so far.
Consumed(s) == SubSeq(log, s.start + 1, s.cursor - Len(s.buf))

\* ------------------------------------------------------------ main.rs: CLI

HintLine ==
    [line |-> "Hint: Try using 'sudo' or run the program as root/superuser.",
     err |-> "none"]

\* Faulty variant: the hint for every error.
NeedsHintAlways(e) == TRUE

\* `if let rmesg::error::RMesgError::OperationNotPermitted(_) = e`
NeedsHint(e) == e = "OperationNotPermitted"

\* eprintln!("<what>: {}", e), then the hint for the permission error.
Diagnostic(what, e) ==
    <<[line |-> what, err |-> e]>> \o (IF NeedsHint(e) THEN <<HintLine>> ELSE <<>>)

\* Faulty variant: clear requested whatever the options say.
NofollowClearAlways(o) == TRUE

\* The flag nofollow hands to the library: `opts.clear`.
NofollowClear(o) == o.clear

\* nofollow: one retrieval, raw or structured, printed or diagnosed.
nofollow(o, strict) ==
    LET r == OneShot(o.backend, NofollowClear(o), o.raw, strict) IN
    [call   |-> r,
     stdout |-> IF r.ok THEN r.out ELSE <<>>,
     stderr |-> IF r.ok THEN <<>>
                ELSE Diagnostic(IF o.raw THEN "Unable to get raw logs"
                                ELSE "Unable to get log entries", r.err)]

\* Faulty variant: the loop goes on after an error item.
MainItemKeepGoing(item) ==
    IF IsOk(item)
    THEN [stdout |-> <<item>>, stderr |-> <<>>, return |-> FALSE]
    ELSE [stdout |-> <<>>,
          stderr |-> Diagnostic("Unable to get logs stream", item.err),
          return |-> FALSE]

\* One turn of `while let Some(result) = entries.next().await`.
MainItem(item) ==
    IF IsOk(item)
    THEN [stdout |-> <<item>>, stderr |-> <<>>, return |-> FALSE]
    ELSE [stdout |-> <<>>,
          stderr |-> Diagnostic("Unable to get logs stream", item.err),
          return |-> TRUE]

\* The command lines main is started with: every Options value once, flags
\* in the order -f -c -r -b, and one rejected line.
FlagLists ==
    {SelectSeq(<<"-f", "-c", "-r">>, LAMBDA t : t \in S) : S \in SUBSET {"-f", "-c", "-r"}}

MainArgs ==
    {f \o b : f \in FlagLists,
              b \in {<<>>, <<"-b", "klogctl">>, <<"-b", "devkmsg">>}}
    \cup {<<"-b", "invalid">>}

\* ------------------------------------------------- benchmark.rs: drivers

FollowDrivers ==
    {"kmsg_iter_read", "kmsg_stream_read", "klog_iter_read", "klog_stream_read"}

OneShotDrivers == {"kmsg_read", "klog_read"}

Programs == {"main"} \cup FollowDrivers \cup OneShotDrivers

KmsgDrivers == {"kmsg_read", "kmsg_iter_read", "kmsg_stream_read"}

KlogDrivers == {"klog_read", "klog_iter_read", "klog_stream_read"}

\* KMsgEntriesIter / KMsgEntriesStream / KLogEntries
DriverBackend(p) == IF p \in KmsgDrivers THEN "DevKMsg" ELSE "KLogCtl"

\* `for entry in entries` against `while let Some(entry) = entries.next().await`
DriverStyle(p) ==
    IF p \in {"kmsg_iter_read", "klog_iter_read"} THEN "iter" ELSE "stream"

\* Faulty variant: no break.
DriverItemNoBreak(c, item) ==
    IF ~IsOk(item) THEN [count |-> c, verdict |-> "panic"]
    ELSE [count |-> c + 1, verdict |-> "continue"]

\* Faulty variant: count is not incremented.
DriverItemNoCount(c, item) ==
    IF ~IsOk(item) THEN [count |-> c, verdict |-> "panic"]
    ELSE IF c > BenchLimit THEN [count |-> c, verdict |-> "break"]
    ELSE [count |-> c, verdict |-> "continue"]

\* black_box(entry).unwrap(); count += 1; if count > 25 { break; }
DriverItem(c, item) ==
    IF ~IsOk(item) THEN [count |-> c, verdict |-> "panic"]
    ELSE IF c + 1 > BenchLimit THEN [count |-> c + 1, verdict |-> "break"]
    ELSE [count |-> c + 1, verdict |-> "continue"]

\* ------------------------------------------------------------ environment

RecordLimit ==
    IF prog \in FollowDrivers THEN BenchLimit + 1 + MaxPending ELSE MaxRecords

Running == pc \in {"start", "following"}

\* The kernel logs one more record; a descriptor waiting for readiness is
\* notified.
Arrive ==
    /\ Len(log) < RecordLimit
    /\ Len(log) - sess.cursor < MaxPending
    /\ \E k \in (IF Len(log) < MaxVaried THEN RecordKinds ELSE {PlainKind}) :
          log' = Append(log, [seq |-> Len(log) + 1, prio |-> k.prio, sep |-> k.sep])
    /\ sess' = IF sess.open /\ sess.backend = "DevKMsg"
               THEN Wake(sess) ELSE sess
    /\ UNCHANGED <<prog, args, opts, pc, kmsgAvail, klogPerm, ioFault, ringStart,
                   items, callErr, count, stdout, stderr, ksys, result>>

\* The special file starts failing at transport level; a waiting descriptor
\* becomes ready (with the error).
IOFault ==
    /\ Running
    /\ kmsgAvail = "ok"
    /\ ~ioFault
    /\ ioFault' = TRUE
    /\ sess' = IF sess.open /\ sess.backend = "DevKMsg"
               THEN Wake(sess) ELSE sess
    /\ UNCHANGED <<prog, args, opts, pc, kmsgAvail, klogPerm, log, ringStart,
                   items, callErr, count, stdout, stderr, ksys, result>>

\* The sleep interval of a ring-buffer follow object elapses.
Timer ==
    /\ sess.open /\ sess.parked /\ sess.backend = "KLogCtl"
    /\ sess' = Wake(sess)
    /\ UNCHANGED <<prog, args, opts, pc, kmsgAvail, klogPerm, ioFault, log,
                   ringStart, items, callErr, count, stdout, stderr, ksys, result>>


\* -------------------------------------------------------------------- main

\* get_matches() prints the usage error and ends the process.
MainUsage ==
    /\ prog = "main" /\ pc = "start"
    /\ parse_args(args).rejected
    /\ opts' = parse_args(args)
    /\ pc' = "usage"
    /\ result' = "usage"
    /\ stderr' = Append(stderr, [line |-> "usage", err |-> "none"])
    /\ UNCHANGED <<prog, args, kmsgAvail, klogPerm, ioFault, log, ringStart,
                   sess, items, callErr, count, stdout, ksys>>

\* `if !opts.follow { nofollow(opts); }` ... `Ok(())`
MainNoFollow ==
    /\ prog = "main" /\ pc = "start"
    /\ ~parse_args(args).rejected
    /\ ~parse_args(args).follow
    /\ \E strict \in BOOLEAN :
          LET o == parse_args(args)
              n == nofollow(o, strict)
          IN  /\ opts' = o
              /\ stdout' = stdout \o n.stdout
              /\ stderr' = stderr \o n.stderr
              /\ ksys' = ksys \o n.call.sys
              /\ ringStart' = n.call.ringStart
              /\ items' = items \o n.call.out
              /\ callErr' = n.call.err
    /\ pc' = "done"
    /\ result' = "Ok"
    /\ UNCHANGED <<prog, args, kmsgAvail, klogPerm, ioFault, log, sess, count>>

\* `rmesg::logs_stream(opts.backend, opts.clear, opts.raw).await`.  Whether
\* the structured file's cursor starts past the backlog (the clear flag, if
\* honoured, or the open-time seek) is `skip`.
MainOpen ==
    /\ prog = "main" /\ pc = "start"
    /\ ~parse_args(args).rejected
    /\ parse_args(args).follow
    /\ \E skip \in BOOLEAN :
          LET o == parse_args(args)
              r == OpenFollow(o.backend, o.raw, "stream", skip)
          IN  /\ opts' = o
              /\ ksys' = ksys \o r.sys
              /\ callErr' = r.err
              /\ IF r.ok
                 THEN /\ sess' = r.sess
                      /\ pc' = "following"
                      /\ UNCHANGED <<stderr, result>>
                 ELSE /\ stderr' = stderr \o Diagnostic("Unable to get logs stream", r.err)
                      /\ pc' = "done"
                      /\ result' = "Ok"
                      /\ UNCHANGED sess
    /\ UNCHANGED <<prog, args, kmsgAvail, klogPerm, ioFault, log, ringStart,
                   items, count, stdout>>

\* entries.next().await resolves with an item.
MainPoll ==
    /\ prog = "main" /\ pc = "following"
    /\ sess.open /\ ~sess.parked /\ Ready(sess)
    /\ \E n \in 1..MaxPending :
          LET o == ReadNext(sess, n)
              h == MainItem(o.item)
          IN  /\ items' = Append(items, o.item)
              /\ ksys' = ksys \o o.sys
              /\ stdout' = stdout \o h.stdout
              /\ stderr' = stderr \o h.stderr
              /\ IF h.return
                 THEN /\ pc' = "done"
                      /\ result' = "Ok"
                      /\ sess' = Dropped(o.sess)
                 ELSE /\ sess' = o.sess
                      /\ UNCHANGED <<pc, result>>
    /\ UNCHANGED <<prog, args, opts, kmsgAvail, klogPerm, ioFault, log,
                   ringStart, callErr, count>>

\* entries.next().await finds nothing to read and gives the event loop back
\* control until the backend is ready.
MainPending ==
    /\ prog = "main" /\ pc = "following"
    /\ sess.open /\ ~sess.parked /\ ~Ready(sess)
    /\ sess' = ReadNext(sess, 1).sess
    /\ UNCHANGED <<prog, args, opts, pc, kmsgAvail, klogPerm, ioFault, log,
                   ringStart, items, callErr, count, stdout, stderr, ksys, result>>

\* ----------------------------------------------------- benchmark drivers

\* kmsg_read: kmsg(file).unwrap();  klog_read: klog(false).unwrap()
DriverOneShot ==
    /\ prog \in OneShotDrivers /\ pc = "start"
    /\ \E strict \in BOOLEAN :
          LET r == IF prog = "kmsg_read" THEN kmsg(FALSE, strict)
                   ELSE klog(FALSE, FALSE)
          IN  /\ ksys' = ksys \o r.sys
              /\ ringStart' = r.ringStart
              /\ items' = items \o r.out
              /\ callErr' = r.err
              /\ pc' = IF r.ok THEN "done" ELSE "panicked"
              /\ result' = IF r.ok THEN "Ok" ELSE "panic"
    /\ UNCHANGED <<prog, args, opts, kmsgAvail, klogPerm, ioFault, log, sess,
                   count, stdout, stderr>>

\* KMsgEntriesIter::with_options(file, generate_random_bool()).unwrap(),
\* KLogEntries::with_options(false, interval).unwrap(); count = 0.
DriverOpen ==
    /\ prog \in FollowDrivers /\ pc = "start"
    /\ \E raw \in (IF prog \in KmsgDrivers THEN BOOLEAN ELSE {FALSE}),
          skip \in BOOLEAN :
          LET r == OpenFollow(DriverBackend(prog), raw, DriverStyle(prog), skip)
          IN  /\ ksys' = ksys \o r.sys
              /\ sess' = r.sess
              /\ callErr' = r.err
              /\ pc' = IF r.ok THEN "following" ELSE "panicked"
              /\ result' = IF r.ok THEN result ELSE "panic"
    /\ count' = 0
    /\ UNCHANGED <<prog, args, opts, kmsgAvail, klogPerm, ioFault, log,
                   ringStart, items, stdout, stderr>>

\* One turn of the driver's loop.  The iterator's next() sits in the
\* backend's read until it returns something; the stream's next() is polled
\* and comes back only when something is there.
DriverNext ==
    /\ prog \in FollowDrivers /\ pc = "following"
    /\ sess.open /\ ~sess.parked /\ Ready(sess)
    /\ \E n \in 1..MaxPending :
          LET o == ReadNext(sess, n)
              d == DriverItem(count, o.item)
          IN  /\ items' = Append(items, o.item)
              /\ ksys' = ksys \o o.sys
              /\ count' = d.count
              /\ CASE d.verdict = "panic" ->
                        /\ pc' = "panicked" /\ result' = "panic"
                        /\ sess' = Dropped(o.sess)
                   [] d.verdict = "break" ->
                        /\ pc' = "done" /\ result' = "Ok"
                        /\ sess' = Dropped(o.sess)
                   [] OTHER ->
                        /\ sess' = o.sess
                        /\ UNCHANGED <<pc, result>>
    /\ UNCHANGED <<prog, args, opts, kmsgAvail, klogPerm, ioFault, log,
                   ringStart, callErr, stdout, stderr>>

\* The stream's poll finds nothing to read: Pending, woken on readiness.
DriverPending ==
    /\ prog \in FollowDrivers /\ pc = "following"
    /\ sess.style = "stream"
    /\ sess.open /\ ~sess.parked /\ ~Ready(sess)
    /\ sess' = ReadNext(sess, 1).sess
    /\ UNCHANGED <<prog, args, opts, pc, kmsgAvail, klogPerm, ioFault, log,
                   ringStart, items, callErr, count, stdout, stderr, ksys, result>>

\* ---------------------------------------------------------- specification

\* The drivers touch one backend each; the state of the other one is fixed.
Init ==
    /\ prog \in Programs
    /\ args \in (IF prog = "main" THEN MainArgs ELSE {<<>>})
    /\ opts = NoOptions
    /\ pc = "start"
    /\ kmsgAvail \in (IF prog \in KlogDrivers THEN {"ok"}
                      ELSE {"ok", "missing", "denied"})
    /\ klogPerm \in (IF prog \in KmsgDrivers THEN {TRUE} ELSE BOOLEAN)
    /\ ioFault = FALSE
    /\ log = <<>>
    /\ ringStart = 0
    /\ sess = NoSession
    /\ items = <<>>
    /\ callErr = "none"
    /\ count = 0
    /\ stdout = <<>>
    /\ stderr = <<>>
    /\ ksys = <<>>
    /\ result = "none"

Next ==
    \/ Arrive
    \/ IOFault
    \/ Timer
    \/ MainUsage
    \/ MainNoFollow
    \/ MainOpen
    \/ MainPoll
    \/ MainPending
    \/ DriverOneShot
    \/ DriverOpen
    \/ DriverNext
    \/ DriverPending

Spec == Init /\ [][Next]_vars

\* parse_args alone, over every command line of up to MaxArgs tokens.
InitParse ==
    /\ prog = "main"
    /\ args \in SeqsUpTo(Tokens, MaxArgs)
    /\ opts = NoOptions
    /\ pc = "start"
    /\ kmsgAvail = "ok"
    /\ klogPerm = TRUE
    /\ ioFault = FALSE
    /\ log = <<>>
    /\ ringStart = 0
    /\ sess = NoSession
    /\ items = <<>>
    /\ callErr = "none"
    /\ count = 0
    /\ stdout = <<>>
    /\ stderr = <<>>
    /\ ksys = <<>>
    /\ result = "none"

NextParse ==
    \/ MainUsage
    \/ MainNoFollow
    \/ MainOpen

SpecParse == InitParse /\ [][NextParse]_vars

\* ------------------------------------------------------------- properties

Has(t) == \E i \in DOMAIN args : args[i] = t

\* The token after the first -b ("" when there is none).
BackendValue ==
    IF \E i \in DOMAIN args : args[i] = "-b" /\ i < Len(args)
    THEN LET i == CHOOSE j \in DOMAIN args :
                     /\ args[j] = "-b"
                     /\ \A k \in 1..(j - 1) : args[k] # "-b"
         IN  IF i < Len(args) THEN args[i + 1] ELSE ""
    ELSE ""

Parsed == prog = "main" /\ pc # "start"

Accepted == Parsed /\ ~opts.rejected

\* C9: parse_args maps every accepted command line to Options in which
\* follow, clear and raw are true exactly when -f, -c and -r are given, and
\* backend is Default without -b, KLogCtl for "-b klogctl" and DevKMsg for
\* "-b devkmsg"; a command line with any other -b value is rejected: the
\* process ends in the usage error and no Options exist.
C9_ParseArgs ==
    Parsed =>
       /\ opts.rejected <=> pc = "usage"
       /\ Has("-b") /\ BackendValue \notin {"klogctl", "devkmsg"} => opts.rejected
       /\ ~opts.rejected =>
             /\ opts.follow = Has("-f")
             /\ opts.clear = Has("-c")
             /\ opts.raw = Has("-r")
             /\ opts.backend = CASE ~Has("-b")               -> "Default"
                                 [] BackendValue = "klogctl" -> "KLogCtl"
                                 [] BackendValue = "devkmsg" -> "DevKMsg"
                                 [] OTHER                    -> "rejected"

C9_Witness ==
    /\ Accepted
    /\ args = <<"-c", "-b", "devkmsg">>
    /\ opts = [rejected |-> FALSE, follow |-> FALSE, clear |-> TRUE,
               raw |-> FALSE, backend |-> "DevKMsg"]

\* The errors the library returned to the program, in order.
ErrorsOf(s) ==
    LET bad == SelectSeq(s, LAMBDA it : ~IsOk(it))
    IN  [i \in DOMAIN bad |-> bad[i].err]

LibraryErrors ==
    (IF callErr = "none" THEN <<>> ELSE <<callErr>>) \o ErrorsOf(items)

IsDiagnostic(l) == l.err # "none"

\* C3: on every path of main (opening the stream, an error item, raw and
\* structured retrieval) each error the library returns is printed as one
\* diagnostic, the hint follows a diagnostic exactly when its error is
\* OperationNotPermitted (and is printed nowhere else), and every entry or
\* raw line the library hands over without error is printed to stdout.
C3_DiagnosticAndHint ==
    Accepted =>
       /\ LET diags == SelectSeq(stderr, IsDiagnostic)
          IN  [i \in DOMAIN diags |-> diags[i].err] = LibraryErrors
       /\ \A i \in DOMAIN stderr :
             /\ IsDiagnostic(stderr[i]) =>
                   (stderr[i].err = "OperationNotPermitted"
                      <=> i < Len(stderr) /\ stderr[i + 1] = HintLine)
             /\ stderr[i] = HintLine =>
                   i > 1 /\ stderr[i - 1].err = "OperationNotPermitted"
       /\ stdout = KeepOk(items)

C3_Witness ==
    /\ Accepted
    /\ opts.follow
    /\ items = <<ErrItem("OperationNotPermitted")>>
    /\ stderr = <<[line |-> "Unable to get logs stream",
                   err |-> "OperationNotPermitted"], HintLine>>

\* C10: in main's follow mode an error item, of any kind, is the last item
\* taken from the stream: with it main has returned Ok and dropped the
\* stream, and from then on nothing more is requested or printed; main
\* returns Ok on every path that ends, failure to open the stream included.
C10_FirstErrorEndsFollow ==
    /\ [](Accepted /\ opts.follow =>
            /\ \A i \in DOMAIN items : ~IsOk(items[i]) =>
                  i = Len(items) /\ pc = "done" /\ ~sess.open
            /\ pc = "done" => result = "Ok"
            /\ callErr # "none" => pc = "done" /\ items = <<>>)
    /\ [][Accepted /\ opts.follow /\ pc = "done" =>
            UNCHANGED <<items, stdout, stderr, ksys, pc, result>>]_vars

C10_Witness ==
    /\ Accepted /\ opts.follow
    /\ pc = "done" /\ result = "Ok"
    /\ Len(items) = 2 /\ IsOk(items[1]) /\ items[2].err = "MalformedRecord"
    /\ Len(stdout) = 1
    /\ Len(log) > sess.cursor

KlogItemOf(raw, r) == IF raw THEN RawLine(r) ELSE parse_klog(r)

KlogCalls ==
    SelectSeq(ksys, LAMBDA a : a \in {"klog_read_all", "klog_clear", "klog_read"})

\* main is run without -b.
Automatic == Accepted /\ ~Has("-b")

\* C2: without -b the backend is Default; construction first tries to open
\* the structured file, and when that file is missing or permission-denied it
\* uses the ring buffer instead and never reads the file: a follow object is
\* then a KLogCtl one, and a one-shot retrieval performs read-all (and the
\* clear asked for) and, the ring buffer being permitted, prints the whole
\* buffer without any diagnostic.  With the file available it is the
\* backend used.
C2_AutomaticFallsBack ==
    /\ [](Automatic =>
            /\ opts.backend = "Default"
            /\ ksys # <<>> /\ ksys[1] = "kmsg_open"
            /\ kmsgAvail # "ok" =>
                  /\ \A i \in DOMAIN ksys : ksys[i] # "kmsg_read"
                  /\ opts.follow => sess.backend = "KLogCtl"
            /\ kmsgAvail = "ok" =>
                  /\ KlogCalls = <<>>
                  /\ opts.follow => sess.backend = "DevKMsg")
    /\ [][prog = "main" /\ pc = "start" /\ pc' = "done" /\ kmsgAvail # "ok"
          /\ ~Has("-b") /\ ~Has("-f") =>
            /\ ksys' = <<"kmsg_open", "klog_read_all">>
                        \o (IF Has("-c") /\ klogPerm THEN <<"klog_clear">> ELSE <<>>)
            /\ klogPerm =>
                  /\ stderr' = <<>>
                  /\ stdout' = [i \in DOMAIN log |->
                                   KlogItemOf(Has("-r"), log[i])]]_vars

C2_Witness ==
    /\ Automatic /\ ~opts.follow /\ pc = "done"
    /\ kmsgAvail = "missing"
    /\ ksys = <<"kmsg_open", "klog_read_all">>
    /\ Len(stdout) = 2 /\ stderr = <<>>

\* A one-shot retrieval that went to the ring-buffer backend has ended.
KlogOneShotDone ==
    /\ pc \in {"done", "panicked"}
    /\ \/ prog = "klog_read"
       \/ /\ Accepted /\ ~opts.follow
          /\ \/ opts.backend = "KLogCtl"
             \/ opts.backend = "Default" /\ kmsgAvail # "ok"

\* The clear flag as the user gave it (the klog_read driver passes false).
ClearAsked == prog = "main" /\ Has("-c")

\* C7: a one-shot retrieval on KLogCtl performs read-all exactly once, and
\* clear, right after it, exactly when the clear flag is set and read-all
\* succeeded; with the flag unset or read-all failing the ring buffer keeps
\* its contents.
C7_ReadAllOnceThenClear ==
    KlogOneShotDone =>
       /\ KlogCalls = <<"klog_read_all">>
                        \o (IF ClearAsked /\ callErr = "none"
                            THEN <<"klog_clear">> ELSE <<>>)
       /\ ringStart = IF ClearAsked /\ callErr = "none" THEN Len(items) ELSE 0
       /\ callErr = "none" <=> klogPerm

C7_Witness ==
    /\ KlogOneShotDone /\ ClearAsked
    /\ opts.backend = "KLogCtl"
    /\ ksys = <<"klog_read_all", "klog_clear">>
    /\ Len(items) = 2 /\ ringStart = 2 /\ Len(log) = 2

ItemOf(s, r) ==
    IF s.backend = "DevKMsg"
    THEN (IF s.raw THEN RawLine(r) ELSE parse_kmsg(r))
    ELSE KlogItemOf(s.raw, r)

\* One item per record handed out, in arrival order.
Delivered(s) == [i \in DOMAIN Consumed(s) |-> ItemOf(s, Consumed(s)[i])]

Following(b) == sess.backend = b

KmsgReads == SelectSeq(ksys, LAMBDA a : a = "kmsg_read")

\* C1: a follow object on DevKMsg yields, for the records logged after its
\* starting point, one item per record in arrival order, each from one read
\* of the descriptor (a transport failure, if any, comes last); a step never
\* adds more than one item; while nothing is there to read it yields nothing
\* and stays open; and a benchmark driver has counted exactly the entries it
\* was given.
C1_OneItemPerRecord ==
    /\ [](Following("DevKMsg") =>
            /\ \/ items = Delivered(sess)
               \/ ioFault /\ ~sess.open
                  /\ items = Delivered(sess) \o <<ErrItem("IOFailure")>>
            /\ Len(KmsgReads) = Len(items)
            /\ prog \in FollowDrivers => count = Len(KeepOk(items)))
    /\ [][Following("DevKMsg") =>
            /\ Len(items') <= Len(items) + 1
            /\ sess.open /\ ~Ready(sess) => items' = items /\ sess'.open]_vars

C1_Witness ==
    /\ prog = "kmsg_iter_read" /\ pc = "following"
    /\ sess.start = 1 /\ sess.cursor = 4 /\ count = 3
    /\ items = <<parse_kmsg(log[2]), parse_kmsg(log[3]), parse_kmsg(log[4])>>
    /\ ~Ready(sess)

\* C8: the entries one DevKMsg follow session delivers carry sequence
\* numbers that never decrease from one entry to a later one.
C8_SequenceNondecreasing ==
    Following("DevKMsg") =>
       \A i, j \in DOMAIN items :
          i < j /\ items[i].kind = "Entry" /\ items[j].kind = "Entry"
             => items[i].seq <= items[j].seq

C8_Witness ==
    /\ prog = "kmsg_stream_read" /\ Following("DevKMsg")
    /\ Len(items) = 3
    /\ items[1].kind = "Entry" /\ items[3].kind = "Entry"
    /\ items[1].seq = 2 /\ items[3].seq = 4

\* C6: what a follow object has delivered depends on the backend, the raw
\* flag, where the session started and how many records it has handed out,
\* and not on the style: for the blocking iterator and for the cooperative
\* stream alike it is one item per record in arrival order, ended by the
\* fatal error if there was one.  Only the stream ever waits outside a read.
C6_StylesDeliverTheSame ==
    /\ sess.backend # "none" =>
          \/ items = Delivered(sess)
          \/ /\ ~sess.open
             /\ \E e \in {"IOFailure", "OperationNotPermitted"} :
                   items = Delivered(sess) \o <<ErrItem(e)>>
    /\ sess.style = "iter" => ~sess.parked

C6_Witness ==
    /\ prog = "klog_stream_read" /\ pc = "done"
    /\ count = BenchLimit + 1
    /\ Len(items) = BenchLimit + 1
    /\ sess.style = "stream"

Closed == sess.backend # "none" /\ ~sess.open

\* C5: once a follow object is dropped its session is released for good and
\* the object performs no further backend action and yields nothing more,
\* whatever is logged afterwards; a driver's break after its 26th entry, a
\* panic and main's return each drop the object.
C5_NoReadAfterDrop ==
    /\ [][Closed => sess' = sess /\ ksys' = ksys /\ items' = items]_vars
    /\ [](prog \in FollowDrivers /\ count > BenchLimit => Closed /\ pc = "done")
    /\ [](pc \in {"done", "panicked"} /\ sess.backend # "none" => Closed)

C5_Witness ==
    /\ prog = "kmsg_iter_read" /\ pc = "done"
    /\ Closed
    /\ count = BenchLimit + 1
    /\ Len(log) = sess.cursor + 2

\* C4 (as claimed): in main's follow mode a MalformedRecord item does not end
\* the session: whenever one has been surfaced main is still following on an
\* open stream, so that the records logged after it can be delivered.
C4_MalformedRecordSessionContinues ==
    Accepted /\ opts.follow =>
       \A i \in DOMAIN items :
          items[i].err = "MalformedRecord" => pc = "following" /\ sess.open

====
